---- MODULE Spec2Model ----
(***************************************************************************)
(* Model of scrcpy.client.Client (src/scrcpy/client.py): the session       *)
(* lifecycle start()/stop(), the bootstrap handshake and the streaming     *)
(* loop, run by the application's threads and by the threads that          *)
(* start(threaded=True) spawns.  A statement that reads or writes alive or *)
(* binds a handle is one step of the thread that runs it; the three        *)
(* close() calls of stop() are one step.                                   *)
(***************************************************************************)
EXTENDS Integers, Sequences, FiniteSets, TLC

\* ---------------------------------------------------------------- bounds
MaxStarts == 2            \* calls of start() in one behaviour
MaxPackets == 1           \* packets codec.parse() yields for one chunk
MaxFramesPerPacket == 2   \* frames codec.decode() yields for one packet
NumInit == 2              \* callbacks registered with on_init
NumFrame == 2             \* callbacks registered with on_frame
NumChange == 1            \* callbacks registered with on_change
MaxNameLen == 2           \* characters of the device names drawn (and one
                          \* name that fills the field)

\* ------------------------------------------------------ program constants
ConnectAttempts == 30     \* for _ in range(30)
change_threshold == 100   \* change_treshold: int = 100
DummyBytes == 1           \* recv(1)
NameBytes == 64           \* recv(64)
ResBytes == 4             \* recv(4), struct.unpack(">HH", res)

None == 0
Callers == {<<"caller", 1>>}       \* application threads: start() and stop()
Stoppers == {<<"stopper", 1>>}     \* application threads that only call stop()
Worker(k) == <<"worker", k>>       \* the thread the k-th start() spawns
Workers == {Worker(k) : k \in 1 .. MaxStarts}
Threads == Callers \cup Workers \cup Stoppers
Pixels == {0}                      \* pixel value of a decoded frame
FrameShapes == {<<720, 1080>>}     \* (frame.shape[1], frame.shape[0])

\* An attribute that is None, or that holds v.
Unset == [set |-> FALSE, val |-> << >>]
Some(v) == [set |-> TRUE, val |-> v]

\* Exceptions in flight in the loop's try statement: origin "recv" is the
\* socket read on an open socket, "closed" the read on a closed one, "cb" a
\* subscriber's callback.
NoExc == [kind |-> "none", origin |-> "none"]
CallbackErrors == {"BlockingIOError", "OSError", "Exception"}

VARIABLES
  alive,            \* self.alive
  server_stream,    \* self.__server_stream (None or a handle)
  video_socket,     \* self.__video_socket
  control_socket,   \* self.control_socket
  closed,           \* handles on which close() has been called
  nHandles,         \* handles opened so far
  device_name,      \* self.device_name
  resolution,       \* self.resolution
  last_frame,       \* self.last_frame (None or the frame's pixel value)
  listeners,        \* self.listeners
  block_frame,      \* self.block_frame
  pc,               \* where each thread is
  loc,              \* each thread's locals
  nStarts,          \* calls of start() so far
  hist              \* history: what has happened so far

vars == << alive, server_stream, video_socket, control_socket, closed, nHandles,
           device_name, resolution, last_frame, listeners, block_frame,
           pc, loc, nStarts, hist >>

\* The statements of __stream_loop, and of the callbacks it runs.
LoopPCs == {"lp_top", "lp_recv", "lp_packet", "lp_frame", "lp_disp", "lp_cb",
            "lp_cb2", "lp_exc", "lp_sleep", "lp_tick", "lp_tcb"}
\* stop() after its first statement.
StopPCs == {"sp_close"}

\* start() before it runs the loop.
StartPCs == {"st_assert", "st_deploy", "st_connect", "st_dummy", "st_control",
             "st_name", "st_res", "st_alive", "st_init", "st_icb", "st_run",
             "st_raise", "st_blocked"}

\* Thread c is running __stream_loop (possibly inside a stop() that one of
\* the loop's callbacks called).
InLoop(c) ==
  \/ pc[c] \in LoopPCs
  \/ pc[c] \in StopPCs /\ loc[c].ret \in LoopPCs

\* ret: where stop() returns to; live: whether alive was true when stop()
\* was called; threaded, start: the argument and the
\* number of the start() call; idx: the position in the listener list being
\* iterated, or the connect attempts that have failed; wire: what the recv
\* calls of the handshake have returned so far; pk, fr: packets and frames of the chunk still to come; changed:
\* what the documented on_change policy says of the frame being dispatched;
\* exc: the exception in flight.
InitLoc == [ret |-> "idle", live |-> FALSE, threaded |-> FALSE,
            start |-> 0, idx |-> 0, wire |-> << >>,
            pk |-> 0, fr |-> 0, changed |-> FALSE, exc |-> NoExc]

\* The session after Client(...) and the registrations that have put the
\* callbacks ls in the lists.  History: reg, the callbacks of each kind in
\* the order of their registration; ret, the list the last registration
\* returned.
InitWith(ls) ==
  /\ alive = FALSE
  /\ server_stream = None
  /\ video_socket = None
  /\ control_socket = None
  /\ closed = {}
  /\ nHandles = 0
  /\ device_name = Unset
  /\ resolution = Unset
  /\ last_frame = None
  /\ listeners = ls
  /\ block_frame \in BOOLEAN
  /\ pc = [c \in Threads |-> IF c \in Workers THEN "unborn" ELSE "idle"]
  /\ loc = [c \in Threads |-> InitLoc]
  /\ nStarts = 0
  /\ hist = [stopped |-> [c \in Threads |-> "no"],
             initDone |-> [k \in 1 .. MaxStarts |-> FALSE],
             stopDone |-> FALSE,
             handshake |-> Unset,
             reg |-> ls,
             ret |-> "none"]

\* The callbacks are registered before start(), as its docstring asks.
Registered == [init |-> [i \in 1 .. NumInit |-> i],
               frame |-> [i \in 1 .. NumFrame |-> i],
               change |-> [i \in 1 .. NumChange |-> i]]

Init == InitWith(Registered)

\* ------------------------------------------------------------- helpers
\* Thread c goes to p with locals l.
Step(c, p, l) ==
  /\ pc' = [pc EXCEPT ![c] = p]
  /\ loc' = [loc EXCEPT ![c] = l]

Goto(c, p) == Step(c, p, loc[c])

\* x.close(): closing a closed handle changes nothing.
Close(cl, h) == cl \cup {h}

\* "if self.x is not None: self.x.close()"
CloseIfBound(cl, h) == IF h # None THEN Close(cl, h) ELSE cl

\* A new connection or stream of the device transport.
NewHandle == nHandles + 1

\* An exception of this kind leaves start(): the thread that called start()
\* has it.
StartRaises(t, kind) ==
  Step(t, "st_raise", [InitLoc EXCEPT !.start = loc[t].start,
                                      !.wire = loc[t].wire,
                                      !.exc = [kind |-> kind,
                                               origin |-> "start"]])

\* The same after a recv that returned reply.
RecvRaises(t, kind, reply) ==
  Step(t, "st_raise", [InitLoc EXCEPT !.start = loc[t].start,
                                      !.wire = Append(loc[t].wire, reply),
                                      !.exc = [kind |-> kind,
                                               origin |-> "start"]])

\* The recv has returned reply and the handshake goes on at p.
RecvDone(t, p, reply) ==
  Step(t, p, [loc[t] EXCEPT !.wire = Append(@, reply)])

\* --------------------------------------------------- handshake parsing
\* str.rstrip("\x00"): the string up to its last character that is not NUL.
RStripNul(s) ==
  LET keep == {i \in 1 .. Len(s) : s[i] # 0}
      last == IF keep = {} THEN 0
              ELSE CHOOSE i \in keep : \A j \in keep : j <= i
  IN  SubSeq(s, 1, last)

\* bytes.decode("utf-8"), for bytes below 0xE0: the code points, or ok =
\* FALSE for UnicodeDecodeError.  A byte below 0x80 is a character; a byte
\* 0xC2..0xDF leads a character of two bytes, the second in 0x80..0xBF.
Utf8Decode(b) ==
  LET lead2(i) == b[i] >= 194 /\ b[i] < 224
      cont(i) == b[i] >= 128 /\ b[i] < 192
      first(i) == b[i] < 128 \/ lead2(i)
      ok == \A i \in 1 .. Len(b) :
              \/ b[i] < 128
              \/ lead2(i) /\ i < Len(b) /\ cont(i + 1)
              \/ cont(i) /\ i > 1 /\ lead2(i - 1)
      cp(i) == IF b[i] < 128 THEN b[i]
               ELSE (b[i] - 192) * 64 + (b[i + 1] - 128)
  IN  IF ok
      THEN LET starts == SelectSeq([i \in 1 .. Len(b) |-> i], first)
           IN  [ok |-> TRUE, val |-> [k \in 1 .. Len(starts) |-> cp(starts[k])]]
      ELSE [ok |-> FALSE, val |-> << >>]

\* An unpack that reads the two integers low byte first.
Unpack_LittleEndian(res) ==
  << res[2] * 256 + res[1], res[4] * 256 + res[3] >>

\* struct.unpack(">HH", res), for res of ResBytes bytes.
Unpack(res) == << res[1] * 256 + res[2], res[3] * 256 + res[4] >>

\* What the recv calls of the handshake may return: no byte (the peer has
\* closed), fewer bytes than asked for, or all of them.
PadNul(b, n) == b \o [i \in 1 .. n - Len(b) |-> 0]
DummyReplies == {<< >>, << 0 >>}
NameReplies == {<< >>, << 100 >>, PadNul(<< >>, NameBytes),
                PadNul(<< 100 >>, NameBytes)}
ResReplies == {<< >>, << 4, 56 >>, << 4, 56, 2, 208 >>}

\* ------------------------------------------------------------- start()
\* A caller thread calls start(threaded).
StartCall(t, threaded) ==
  /\ pc[t] = "idle"
  /\ nStarts < MaxStarts
  /\ nStarts' = nStarts + 1
  /\ Step(t, "st_assert", [InitLoc EXCEPT !.threaded = threaded,
                                          !.start = nStarts + 1])
  /\ UNCHANGED << alive, server_stream, video_socket, control_socket, closed,
                  nHandles, device_name, resolution, last_frame, listeners,
                  block_frame, hist >>

\* A start() that does not check alive.
StartAssert_NoCheck(t) ==
  /\ pc[t] = "st_assert"
  /\ Goto(t, "st_deploy")
  /\ UNCHANGED << alive, server_stream, video_socket, control_socket, closed,
                  nHandles, device_name, resolution, last_frame, listeners,
                  block_frame, nStarts, hist >>

\* assert self.alive is False
StartAssert(t) ==
  /\ pc[t] = "st_assert"
  /\ IF alive THEN StartRaises(t, "AssertionError") ELSE Goto(t, "st_deploy")
  /\ UNCHANGED << alive, server_stream, video_socket, control_socket, closed,
                  nHandles, device_name, resolution, last_frame, listeners,
                  block_frame, nStarts, hist >>

\* __deploy_server: device.push() and device.shell() may fail; on success
\* the server stream is bound.
StartDeploy(t) ==
  /\ pc[t] = "st_deploy"
  /\ \E ok \in BOOLEAN :
       IF ok
       THEN /\ server_stream' = NewHandle
            /\ nHandles' = nHandles + 1
            /\ Goto(t, "st_connect")
       ELSE /\ StartRaises(t, "AdbError")
            /\ UNCHANGED << server_stream, nHandles >>
  /\ UNCHANGED << alive, video_socket, control_socket, closed, device_name,
                  resolution, last_frame, listeners, block_frame, nStarts,
                  hist >>

\* A connect loop that makes one attempt more.
StartConnect_OneMore(t) ==
  /\ pc[t] = "st_connect"
  /\ IF loc[t].idx <= ConnectAttempts
     THEN \E ok \in BOOLEAN :
            IF ok
            THEN /\ video_socket' = NewHandle
                 /\ nHandles' = nHandles + 1
                 /\ Step(t, "st_dummy", [loc[t] EXCEPT !.idx = 0])
            ELSE /\ Step(t, "st_connect", [loc[t] EXCEPT !.idx = @ + 1])
                 /\ UNCHANGED << video_socket, nHandles >>
     ELSE /\ StartRaises(t, "ConnectionError")
          /\ UNCHANGED << video_socket, nHandles >>
  /\ UNCHANGED << alive, server_stream, control_socket, closed, device_name,
                  resolution, last_frame, listeners, block_frame, nStarts,
                  hist >>

\* for _ in range(30): one attempt of create_connection.  It binds the video
\* socket and leaves the loop, or raises AdbError, which is caught and
\* followed by sleep(0.1); after ConnectAttempts failures the else clause
\* raises ConnectionError.  loc[t].idx is the number of failed attempts.
StartConnect(t) ==
  /\ pc[t] = "st_connect"
  /\ IF loc[t].idx < ConnectAttempts
     THEN \E ok \in BOOLEAN :
            IF ok
            THEN /\ video_socket' = NewHandle
                 /\ nHandles' = nHandles + 1
                 /\ Step(t, "st_dummy", [loc[t] EXCEPT !.idx = 0])
            ELSE /\ Step(t, "st_connect", [loc[t] EXCEPT !.idx = @ + 1])
                 /\ UNCHANGED << video_socket, nHandles >>
     ELSE /\ StartRaises(t, "ConnectionError")
          /\ UNCHANGED << video_socket, nHandles >>
  /\ UNCHANGED << alive, server_stream, control_socket, closed, device_name,
                  resolution, last_frame, listeners, block_frame, nStarts,
                  hist >>

\* dummy_byte = recv(1); if not len(dummy_byte): raise ConnectionError.  A
\* closed socket raises OSError.
StartDummy(t, reply) ==
  /\ pc[t] = "st_dummy"
  /\ IF video_socket \in closed
     THEN StartRaises(t, "OSError")
     ELSE IF Len(reply) = 0
     THEN RecvRaises(t, "ConnectionError", reply)
     ELSE RecvDone(t, "st_control", reply)
  /\ UNCHANGED << alive, server_stream, video_socket, control_socket, closed,
                  nHandles, device_name, resolution, last_frame, listeners,
                  block_frame, nStarts, hist >>

\* self.control_socket = device.create_connection(...)
StartControl(t) ==
  /\ pc[t] = "st_control"
  /\ \E ok \in BOOLEAN :
       IF ok
       THEN /\ control_socket' = NewHandle
            /\ nHandles' = nHandles + 1
            /\ Goto(t, "st_name")
       ELSE /\ StartRaises(t, "AdbError")
            /\ UNCHANGED << control_socket, nHandles >>
  /\ UNCHANGED << alive, server_stream, video_socket, closed, device_name,
                  resolution, last_frame, listeners, block_frame, nStarts,
                  hist >>

\* self.device_name = recv(64).decode("utf-8").rstrip("\x00"); if not
\* len(self.device_name): raise ConnectionError.
StartName(t, reply) ==
  /\ pc[t] = "st_name"
  /\ IF video_socket \in closed
     THEN StartRaises(t, "OSError") /\ UNCHANGED device_name
     ELSE LET d == Utf8Decode(reply)
          IN  IF ~d.ok
              THEN /\ RecvRaises(t, "UnicodeDecodeError", reply)
                   /\ UNCHANGED device_name
              ELSE /\ device_name' = Some(RStripNul(d.val))
                   /\ IF Len(RStripNul(d.val)) = 0
                      THEN RecvRaises(t, "ConnectionError", reply)
                      ELSE RecvDone(t, "st_res", reply)
  /\ UNCHANGED << alive, server_stream, video_socket, control_socket, closed,
                  nHandles, resolution, last_frame, listeners, block_frame,
                  nStarts, hist >>

\* res = recv(4); self.resolution = struct.unpack(">HH", res), which raises
\* struct.error unless res has ResBytes bytes; setblocking(False).
\* History: the resolution of the handshake.
StartResolution(t, reply) ==
  /\ pc[t] = "st_res"
  /\ IF video_socket \in closed
     THEN StartRaises(t, "OSError") /\ UNCHANGED << resolution, hist >>
     ELSE IF Len(reply) # ResBytes
     THEN /\ RecvRaises(t, "struct.error", reply)
          /\ UNCHANGED << resolution, hist >>
     ELSE /\ resolution' = Some(Unpack(reply))
          /\ hist' = [hist EXCEPT !.handshake = Some(Unpack(reply))]
          /\ RecvDone(t, "st_alive", reply)
  /\ UNCHANGED << alive, server_stream, video_socket, control_socket, closed,
                  nHandles, device_name, last_frame, listeners, block_frame,
                  nStarts >>

\* A recv of the handshake finds nothing to read on the open, blocking
\* socket: it blocks.
StartRecvBlocks(t) ==
  /\ pc[t] \in {"st_dummy", "st_name", "st_res"}
  /\ video_socket \notin closed
  /\ Goto(t, "st_blocked")
  /\ UNCHANGED << alive, server_stream, video_socket, control_socket, closed,
                  nHandles, device_name, resolution, last_frame, listeners,
                  block_frame, nStarts, hist >>

\* Another thread has closed the socket a recv is blocked on: the recv may
\* raise OSError (or stay blocked).
StartRecvWakes(t) ==
  /\ pc[t] = "st_blocked"
  /\ video_socket \in closed
  /\ StartRaises(t, "OSError")
  /\ UNCHANGED << alive, server_stream, video_socket, control_socket, closed,
                  nHandles, device_name, resolution, last_frame, listeners,
                  block_frame, nStarts, hist >>

\* The exception has left start(): the thread is idle again.
StartFails(t) ==
  /\ pc[t] = "st_raise"
  /\ Step(t, "idle", InitLoc)
  /\ UNCHANGED << alive, server_stream, video_socket, control_socket, closed,
                  nHandles, device_name, resolution, last_frame, listeners,
                  block_frame, nStarts, hist >>

\* A start() that spawns the loop's thread before it runs the on_init
\* callbacks.
StartAlive_SpawnFirst(t) ==
  /\ pc[t] = "st_alive"
  /\ alive' = TRUE
  /\ pc' = [pc EXCEPT ![t] = "st_init", ![Worker(loc[t].start)] = "lp_top"]
  /\ loc' = [loc EXCEPT ![t].idx = 1, ![t].wire = << >>]
  /\ UNCHANGED << server_stream, video_socket, control_socket, closed,
                  nHandles, device_name, resolution, last_frame, listeners,
                  block_frame, nStarts, hist >>

\* self.alive = True
StartAlive(t) ==
  /\ pc[t] = "st_alive"
  /\ alive' = TRUE
  /\ Step(t, "st_init", [loc[t] EXCEPT !.idx = 1, !.wire = << >>])
  /\ UNCHANGED << server_stream, video_socket, control_socket, closed,
                  nHandles, device_name, resolution, last_frame, listeners,
                  block_frame, nStarts, hist >>

\* for func in self.listeners[EVENT_INIT]: the next callback is called, or
\* the pass is over.
StartInit(t) ==
  /\ pc[t] = "st_init"
  /\ IF loc[t].idx <= Len(listeners.init)
     THEN Goto(t, "st_icb") /\ UNCHANGED hist
     ELSE /\ Goto(t, "st_run")
          /\ hist' = [hist EXCEPT !.initDone[loc[t].start] = TRUE]
  /\ UNCHANGED << alive, server_stream, video_socket, control_socket, closed,
                  nHandles, device_name, resolution, last_frame, listeners,
                  block_frame, nStarts >>

\* func(self) returns.
InitCallbackReturn(t) ==
  /\ pc[t] = "st_icb"
  /\ Step(t, "st_init", [loc[t] EXCEPT !.idx = @ + 1])
  /\ UNCHANGED << alive, server_stream, video_socket, control_socket, closed,
                  nHandles, device_name, resolution, last_frame, listeners,
                  block_frame, nStarts, hist >>

\* func(self) raises: the error leaves start().
InitCallbackRaise(t) ==
  /\ pc[t] = "st_icb"
  /\ StartRaises(t, "Exception")
  /\ UNCHANGED << alive, server_stream, video_socket, control_socket, closed,
                  nHandles, device_name, resolution, last_frame, listeners,
                  block_frame, nStarts, hist >>

\* threading.Thread(target=self.__stream_loop).start(), or
\* self.__stream_loop() on the caller's thread.
StartRun(t) ==
  /\ pc[t] = "st_run"
  /\ IF loc[t].threaded
     THEN /\ pc' = [pc EXCEPT ![t] = "idle",
                              ![Worker(loc[t].start)] = "lp_top"]
          /\ loc' = [loc EXCEPT ![t] = InitLoc]
     ELSE Step(t, "lp_top", [InitLoc EXCEPT !.start = loc[t].start])
  /\ UNCHANGED << alive, server_stream, video_socket, control_socket, closed,
                  nHandles, device_name, resolution, last_frame, listeners,
                  block_frame, nStarts, hist >>

\* -------------------------------------------------------------- stop()
\* Where stop() is called from: an application thread, or an on_frame
\* callback that the loop called with a frame, which then goes on.
StopSites == {"idle", "lp_cb"}
AfterStop(p) == IF p = "lp_cb" THEN "lp_cb2" ELSE p

\* A stop() that flips the flag instead of clearing it.
StopAlive_Toggle(a) == ~a

\* self.alive = False
StopAlive(a) == FALSE

\* The three "if self.x is not None: self.x.close()" of stop().
StopCloseAll(cl) ==
  CloseIfBound(CloseIfBound(CloseIfBound(cl, server_stream), control_socket),
               video_socket)

\* stop() is called and runs self.alive = False.  History: stop() has been
\* called while thread d was in the loop.
StopCall(c) ==
  /\ pc[c] \in StopSites
  /\ alive' = StopAlive(alive)
  /\ Step(c, "sp_close", [loc[c] EXCEPT !.ret = AfterStop(pc[c]),
                                        !.live = alive])
  /\ hist' = [hist EXCEPT
                !.stopped = [d \in Threads |->
                               IF InLoop(d) /\ @[d] = "no" THEN "called"
                               ELSE @[d]]]
  /\ UNCHANGED << server_stream, video_socket, control_socket, closed,
                  nHandles, device_name, resolution, last_frame, listeners,
                  block_frame, nStarts >>

\* stop() closes what is bound and returns to where it was called from.
\* History: a stop() that was called on a live session has returned
\* (stopDone); a stop() has returned after one was called while thread d
\* was in the loop (stopped[d]).
StopClose(c) ==
  /\ pc[c] = "sp_close"
  /\ closed' = StopCloseAll(closed)
  /\ Step(c, loc[c].ret, [loc[c] EXCEPT !.ret = "idle", !.live = FALSE])
  /\ hist' = [hist EXCEPT
                !.stopDone = @ \/ loc[c].live,
                !.stopped = [d \in Threads |->
                               IF @[d] = "called" THEN "returned" ELSE @[d]]]
  /\ UNCHANGED << alive, server_stream, video_socket, control_socket,
                  nHandles, device_name, resolution, last_frame, listeners,
                  block_frame, nStarts >>

\* ------------------------------------------------------ __stream_loop
\* __stream_loop is over on thread c, by a return (how = "done") or by an
\* exception (how = "raised"): a spawned thread ends, a caller is back from
\* start().
LoopEnds(c, how) ==
  /\ Step(c, IF c \in Workers THEN how ELSE "idle", InitLoc)
  /\ hist' = [hist EXCEPT !.stopped[c] = "no"]

\* The documented policy of on_change: the first frame, or a frame whose mean
\* difference to the previous one is greater than the threshold.
Abs(x) == IF x < 0 THEN -x ELSE x
IsChanged(prev, cur) == prev = None \/ Abs(cur - prev) > change_threshold

\* while self.alive:
LoopTop(c) ==
  /\ pc[c] = "lp_top"
  /\ IF alive THEN Goto(c, "lp_recv") /\ UNCHANGED hist
     ELSE LoopEnds(c, "done")
  /\ UNCHANGED << alive, server_stream, video_socket, control_socket, closed,
                  nHandles, device_name, resolution, last_frame, listeners,
                  block_frame, nStarts >>

\* raw = self.__video_socket.recv(0x10000); codec.parse(raw).  A closed
\* socket raises OSError; an open one yields a chunk of some packets, has
\* nothing to read (BlockingIOError) or fails (OSError).
LoopRecv(c) ==
  /\ pc[c] = "lp_recv"
  /\ IF video_socket \in closed
     THEN Step(c, "lp_exc", [loc[c] EXCEPT !.exc = [kind |-> "OSError",
                                                    origin |-> "closed"]])
     ELSE \/ \E n \in 0 .. MaxPackets :
               Step(c, "lp_packet", [loc[c] EXCEPT !.pk = n, !.fr = 0])
          \/ \E k \in {"BlockingIOError", "OSError"} :
               Step(c, "lp_exc", [loc[c] EXCEPT !.exc = [kind |-> k,
                                                         origin |-> "recv"]])
  /\ UNCHANGED << alive, server_stream, video_socket, control_socket, closed,
                  nHandles, device_name, resolution, last_frame, listeners,
                  block_frame, nStarts, hist >>

\* for packet in codec.parse(raw): codec.decode(packet) yields some frames.
LoopPacket(c) ==
  /\ pc[c] = "lp_packet"
  /\ IF loc[c].pk = 0
     THEN Goto(c, "lp_top")
     ELSE \E n \in 0 .. MaxFramesPerPacket :
            Step(c, "lp_frame", [loc[c] EXCEPT !.pk = @ - 1, !.fr = n])
  /\ UNCHANGED << alive, server_stream, video_socket, control_socket, closed,
                  nHandles, device_name, resolution, last_frame, listeners,
                  block_frame, nStarts, hist >>

\* for frame in codec.decode(packet): frame.to_ndarray(); self.last_frame =
\* frame; self.resolution = (frame.shape[1], frame.shape[0]).
LoopFrame(c) ==
  /\ pc[c] = "lp_frame"
  /\ IF loc[c].fr = 0
     THEN /\ Goto(c, "lp_packet")
          /\ UNCHANGED << last_frame, resolution >>
     ELSE \E pix \in Pixels, shape \in FrameShapes :
            /\ Step(c, "lp_disp",
                    [loc[c] EXCEPT !.fr = @ - 1, !.idx = 1,
                                   !.changed = IsChanged(last_frame, pix)])
            /\ last_frame' = pix
            /\ resolution' = Some(shape)
  /\ UNCHANGED << alive, server_stream, video_socket, control_socket, closed,
                  nHandles, device_name, listeners, block_frame, nStarts,
                  hist >>

\* for func in self.listeners[EVENT_FRAME]: func(self, frame) is called, or
\* the pass is over and the loop goes on to the next frame.  (The loop has
\* no statement that runs the on_change listeners.)
LoopDispatch(c) ==
  /\ pc[c] = "lp_disp"
  /\ IF loc[c].idx <= Len(listeners.frame)
     THEN Goto(c, "lp_cb")
     ELSE Step(c, "lp_frame", [loc[c] EXCEPT !.idx = 0, !.changed = FALSE])
  /\ UNCHANGED << alive, server_stream, video_socket, control_socket, closed,
                  nHandles, device_name, resolution, last_frame, listeners,
                  block_frame, nStarts, hist >>

\* func(self, frame) returns.
FrameCallbackReturn(c) ==
  /\ pc[c] \in {"lp_cb", "lp_cb2"}
  /\ Step(c, "lp_disp", [loc[c] EXCEPT !.idx = @ + 1])
  /\ UNCHANGED << alive, server_stream, video_socket, control_socket, closed,
                  nHandles, device_name, resolution, last_frame, listeners,
                  block_frame, nStarts, hist >>

\* func(self, frame) raises, inside the try statement.
FrameCallbackRaise(c, kind) ==
  /\ pc[c] \in {"lp_cb", "lp_cb2"}
  /\ Step(c, "lp_exc", [loc[c] EXCEPT !.exc = [kind |-> kind,
                                               origin |-> "cb"]])
  /\ UNCHANGED << alive, server_stream, video_socket, control_socket, closed,
                  nHandles, device_name, resolution, last_frame, listeners,
                  block_frame, nStarts, hist >>

\* The locals once an except clause has caught the exception: what was left
\* of the chunk is gone with the try statement.
Caught(l) == [l EXCEPT !.exc = NoExc, !.pk = 0, !.fr = 0, !.idx = 0,
                       !.changed = FALSE]

\* The except clauses of the try statement: BlockingIOError goes to the
\* sleep, any other OSError is raised again if self.alive and dropped
\* otherwise, and anything else is not caught.
LoopExcept(c) ==
  /\ pc[c] = "lp_exc"
  /\ CASE loc[c].exc.kind = "BlockingIOError" ->
            Step(c, "lp_sleep", Caught(loc[c])) /\ UNCHANGED hist
       [] loc[c].exc.kind = "OSError" ->
            IF alive THEN LoopEnds(c, "raised")
            ELSE Step(c, "lp_top", Caught(loc[c])) /\ UNCHANGED hist
       [] OTHER -> LoopEnds(c, "raised")
  /\ UNCHANGED << alive, server_stream, video_socket, control_socket, closed,
                  nHandles, device_name, resolution, last_frame, listeners,
                  block_frame, nStarts >>

\* A loop that passes the empty frame when block_frame is set.
LoopSleep_Inverted(c) ==
  /\ pc[c] = "lp_sleep"
  /\ IF ~block_frame THEN Goto(c, "lp_top")
     ELSE Step(c, "lp_tick", [loc[c] EXCEPT !.idx = 1])
  /\ UNCHANGED << alive, server_stream, video_socket, control_socket, closed,
                  nHandles, device_name, resolution, last_frame, listeners,
                  block_frame, nStarts, hist >>

\* time.sleep(0.01); if not self.block_frame: ...
LoopSleep(c) ==
  /\ pc[c] = "lp_sleep"
  /\ IF block_frame THEN Goto(c, "lp_top")
     ELSE Step(c, "lp_tick", [loc[c] EXCEPT !.idx = 1])
  /\ UNCHANGED << alive, server_stream, video_socket, control_socket, closed,
                  nHandles, device_name, resolution, last_frame, listeners,
                  block_frame, nStarts, hist >>

\* for func in self.listeners[EVENT_FRAME]: func(self, None)
LoopTick(c) ==
  /\ pc[c] = "lp_tick"
  /\ IF loc[c].idx <= Len(listeners.frame)
     THEN Goto(c, "lp_tcb")
     ELSE Step(c, "lp_top", [loc[c] EXCEPT !.idx = 0])
  /\ UNCHANGED << alive, server_stream, video_socket, control_socket, closed,
                  nHandles, device_name, resolution, last_frame, listeners,
                  block_frame, nStarts, hist >>

\* func(self, None) returns.
TickCallbackReturn(c) ==
  /\ pc[c] = "lp_tcb"
  /\ Step(c, "lp_tick", [loc[c] EXCEPT !.idx = @ + 1])
  /\ UNCHANGED << alive, server_stream, video_socket, control_socket, closed,
                  nHandles, device_name, resolution, last_frame, listeners,
                  block_frame, nStarts, hist >>

\* func(self, None) raises, inside the except clause: nothing catches it.
TickCallbackRaise(c) ==
  /\ pc[c] = "lp_tcb"
  /\ LoopEnds(c, "raised")
  /\ UNCHANGED << alive, server_stream, video_socket, control_socket, closed,
                  nHandles, device_name, resolution, last_frame, listeners,
                  block_frame, nStarts >>

\* ---------------------------------------------------------------- Next
\* The steps thread c takes once it has been called or spawned.
ThreadStep(c) ==
  \/ StopClose(c)
  \/ LoopTop(c) \/ LoopRecv(c) \/ LoopPacket(c) \/ LoopFrame(c)
  \/ LoopDispatch(c) \/ FrameCallbackReturn(c) \/ LoopExcept(c)
  \/ LoopSleep(c) \/ LoopTick(c) \/ TickCallbackReturn(c)

CallerStep(t) ==
  \/ StartAssert(t) \/ StartDeploy(t) \/ StartConnect(t)
  \/ \E reply \in DummyReplies : StartDummy(t, reply)
  \/ StartControl(t)
  \/ \E reply \in NameReplies : StartName(t, reply)
  \/ \E reply \in ResReplies : StartResolution(t, reply)
  \/ StartAlive(t) \/ StartInit(t) \/ InitCallbackReturn(t) \/ StartRun(t)
  \/ StartFails(t)

Next ==
  \/ \E t \in Callers, threaded \in BOOLEAN : StartCall(t, threaded)
  \/ \E t \in Callers : CallerStep(t)
  \/ \E t \in Callers : InitCallbackRaise(t)
  \/ \E t \in Callers : StartRecvBlocks(t)
  \/ \E t \in Callers : StartRecvWakes(t)
  \/ \E c \in Threads : StopCall(c)
  \/ \E c \in Threads : ThreadStep(c)
  \/ \E c \in Threads, kind \in CallbackErrors : FrameCallbackRaise(c, kind)
  \/ \E c \in Threads : TickCallbackRaise(c)

Spec == Init /\ [][Next]_vars

\* Threads are scheduled: a thread that can take a step takes it, and a
\* callback that has been called returns unless it raises.
FairSpec ==
  /\ Spec
  /\ \A c \in Threads : WF_vars(ThreadStep(c))
  /\ \A t \in Callers : WF_vars(CallerStep(t))

\* ------------------------------------------------- the handshake alone
\* The device names a server may send: NUL, a one-byte and a two-byte
\* character, no NUL at the end; and the name that fills the field.
NameChars == {0, 97, 233}
Names ==
  {s \in UNION {[1 .. n -> NameChars] : n \in 1 .. MaxNameLen} :
     s[Len(s)] # 0}
    \cup {[i \in 1 .. NameBytes |-> 97]}
Sizes == {0, 255, 256, 720, 1080, 65535}

\* The server's side of the wire: the name in UTF-8 (code points below
\* 0x800), width and height as two big-endian unsigned 16-bit integers.
Utf8Encode(s) ==
  LET width(i) == IF s[i] < 128 THEN 1 ELSE 2
      before(i) == (i - 1) + Cardinality({j \in 1 .. i - 1 : s[j] >= 128})
      total == Len(s) + Cardinality({j \in 1 .. Len(s) : s[j] >= 128})
      of(k) == CHOOSE i \in 1 .. Len(s) :
                 before(i) < k /\ k <= before(i) + width(i)
  IN  [k \in 1 .. total |->
         LET i == of(k)
         IN  IF s[i] < 128 THEN s[i]
             ELSE IF k = before(i) + 1 THEN 192 + (s[i] \div 64)
             ELSE 128 + (s[i] % 64)]
Pack(wh) == << wh[1] \div 256, wh[1] % 256, wh[2] \div 256, wh[2] % 256 >>
NameField(n) == PadNul(Utf8Encode(n), NameBytes)

\* What the recv calls may return here: the fields above, the replies of
\* Spec, and a name cut inside a character.
HandshakeNames == {NameField(n) : n \in Names} \cup NameReplies \cup {<< 195 >>}
HandshakeSizes == {Pack(<< w, h >>) : w, h \in Sizes} \cup ResReplies

\* start() up to the end of __init_server_connection, on one thread.
HandshakeStep(t) ==
  \/ StartAssert(t) \/ StartDeploy(t) \/ StartConnect(t)
  \/ \E reply \in DummyReplies : StartDummy(t, reply)
  \/ StartControl(t)
  \/ \E reply \in HandshakeNames : StartName(t, reply)
  \/ \E reply \in HandshakeSizes : StartResolution(t, reply)
  \/ StartFails(t)

HandshakeNext ==
  \/ \E t \in Callers : StartCall(t, FALSE)
  \/ \E t \in Callers : HandshakeStep(t)

HandshakeSpec == Init /\ [][HandshakeNext]_vars

\* ---------------------------------------------------- registration
\* The callbacks an application registers, and the most that it registers
\* of a kind.
Funcs == {1, 2}
Kinds == {"init", "frame", "change"}
MaxOf(kind) == CASE kind = "init" -> NumInit
                 [] kind = "frame" -> NumFrame
                 [] kind = "change" -> NumChange

\* A registration that keeps one entry for a callback.
AddListener_Dedup(list, func) ==
  IF \E i \in 1 .. Len(list) : list[i] = func THEN list
  ELSE Append(list, func)

\* self.listeners[EVENT].append(func)
AddListener(list, func) == Append(list, func)

\* on_init(func), on_frame(func), on_change(func): append and return the
\* list.
Register(kind, func) ==
  /\ Len(listeners[kind]) < MaxOf(kind)
  /\ listeners' = [listeners EXCEPT ![kind] = AddListener(@, func)]
  /\ hist' = [hist EXCEPT !.reg[kind] = Append(@, func), !.ret = kind]
  /\ UNCHANGED << alive, server_stream, video_socket, control_socket, closed,
                  nHandles, device_name, resolution, last_frame, block_frame,
                  pc, loc, nStarts >>

\* The loop without stop() and without callback errors.
LoopStep(c) ==
  \/ LoopTop(c) \/ LoopRecv(c) \/ LoopPacket(c) \/ LoopFrame(c)
  \/ LoopDispatch(c) \/ FrameCallbackReturn(c) \/ LoopExcept(c)
  \/ LoopSleep(c) \/ LoopTick(c) \/ TickCallbackReturn(c)

\* A session whose callbacks are registered at any time, before start() and
\* while it runs.
RegisterInit == InitWith([init |-> << >>, frame |-> << >>, change |-> << >>])

RegisterNext ==
  \/ \E kind \in Kinds, func \in Funcs : Register(kind, func)
  \/ \E t \in Callers, threaded \in BOOLEAN : StartCall(t, threaded)
  \/ \E t \in Callers : CallerStep(t)
  \/ \E c \in Threads : LoopStep(c)

RegisterSpec == RegisterInit /\ [][RegisterNext]_vars

\* ------------------------------------------------------------ properties
\* Thread c calls an on_frame callback in this step.
Invokes(c) ==
  /\ pc[c] \in {"lp_disp", "lp_tick"}
  /\ pc'[c] \in {"lp_cb", "lp_tcb"}

\* Thread c is inside a callback that its loop called.
InCallback(c) ==
  \/ pc[c] \in {"lp_cb", "lp_cb2", "lp_tcb"}
  \/ pc[c] \in StopPCs /\ loc[c].ret \in LoopPCs

\* The start() call whose loop thread c runs.
RunOf(c) == IF c \in Workers THEN c[2] ELSE loc[c].start

\* The session is stopped: alive is false and every bound handle is closed.
Bound == {server_stream, control_socket, video_socket} \ {None}
FullyStopped == ~alive /\ Bound \subseteq closed

\* What stop() makes of alive and closed when nothing else runs meanwhile.
StopOutcome(s) ==
  [alive |-> StopAlive(s.alive), closed |-> StopCloseAll(s.closed)]

\* Thread c runs a statement of stop() in this step.
IsStopStep(c) ==
  \/ pc[c] \in StopSites /\ pc'[c] = "sp_close"
  \/ pc[c] = "sp_close" /\ pc'[c] # "sp_close"

\* Calls of on_frame callbacks that the loop of thread c still owes for the
\* frames it has decoded: the callbacks not yet called with the frame being
\* dispatched, and all of them for the frames that follow it in the packet.
Owed(c) ==
  LET n == Len(listeners.frame)
      cur == CASE pc[c] = "lp_disp" -> n + 1 - loc[c].idx
               [] pc[c] \in {"lp_cb", "lp_cb2"} -> n - loc[c].idx
               [] pc[c] \in StopPCs /\ loc[c].ret = "lp_cb2" -> n - loc[c].idx
               [] pc[c] = "lp_exc" /\ loc[c].exc.origin = "cb" ->
                    n - loc[c].idx
               [] OTHER -> 0
  IN  cur + loc[c].fr * n

\* C1: once a stop() that was called while the loop ran has returned, the
\* loop calls no on_frame callback any more, wherever in its iteration the
\* loop was.
C1_NoDeliveryAfterStop ==
  [][\A c \in Threads : Invokes(c) => hist.stopped[c] # "returned"]_vars

\* C2: a stop() that has been called returns without waiting for the loop,
\* the loop that was running when it was called ends, and the OSError of
\* that loop's read on the socket stop() closed is not raised out of it.
C2_StopEndsLoop ==
  /\ \A c \in Threads : (pc[c] \in StopPCs) ~> (pc[c] \notin StopPCs)
  /\ \A c \in Threads : (hist.stopped[c] # "no") ~> ~InLoop(c)
  /\ [][\A c \in Threads :
          (pc[c] = "lp_exc" /\ loc[c].exc.origin = "closed"
             /\ hist.stopped[c] # "no" /\ pc'[c] # "lp_exc")
            => pc'[c] = "lp_top"]_vars

\* C3: while alive is true, the video and the control channel are bound and
\* not closed.
C3_AliveImpliesOpen ==
  alive => /\ video_socket # None /\ video_socket \notin closed
           /\ control_socket # None /\ control_socket \notin closed

\* C4: once a stop() of a live session has completed, alive is false and
\* both channels are closed, for good.
C4_StoppedForever ==
  hist.stopDone => /\ ~alive
                   /\ video_socket \in closed
                   /\ control_socket \in closed

\* C5: at most one thread is running the streaming loop.
C5_AtMostOneLoop == Cardinality({c \in Threads : InLoop(c)}) <= 1

\* C6: stop() is idempotent: run on any reachable state it leaves alive
\* false and every bound handle closed, running it again on that outcome
\* changes nothing, and no statement of a stop() that runs on a stopped
\* session changes alive or the closed handles.
C6_StopIdempotent ==
  /\ [](LET s1 == StopOutcome([alive |-> alive, closed |-> closed])
        IN  /\ s1.alive = FALSE
            /\ Bound \subseteq s1.closed
            /\ StopOutcome(s1) = s1)
  /\ [][\A c \in Threads :
          (IsStopStep(c) /\ FullyStopped) =>
             (alive' = alive /\ closed' = closed)]_vars

\* A second stop() is running on a session that an earlier stop() stopped.
C6_Witness ==
  /\ hist.stopDone
  /\ FullyStopped
  /\ \E c \in Threads : pc[c] = "sp_close"

\* C7: an error of any kind that an on_frame callback raises leaves the
\* loop: no except clause of the loop keeps it.
C7_CallbackErrorPropagates ==
  [][\A c \in Threads :
       (pc[c] = "lp_exc" /\ loc[c].exc.origin = "cb" /\ pc'[c] # "lp_exc")
         => pc'[c] \notin LoopPCs]_vars

\* C8: a loop calls an on_frame callback only after the on_init pass of the
\* start() that runs the loop has called every on_init callback.
C8_InitBeforeFrames ==
  \A c \in Threads : InCallback(c) => hist.initDone[RunOf(c)]

\* A spawned loop is inside an on_frame callback, after its start()'s
\* on_init pass.
C8_Witness ==
  \E k \in 1 .. MaxStarts : pc[Worker(k)] = "lp_cb" /\ hist.initDone[k]

\* C9: while the session is alive and the loop goes on, a call the loop owes
\* for a decoded frame goes away only by being made, one at a time.
C9_NoFrameDropped ==
  [][\A c \in Threads :
       (InLoop(c) /\ InLoop(c)' /\ alive' /\ Owed(c)' < Owed(c))
         => (Invokes(c) /\ Owed(c)' = Owed(c) - 1)]_vars

\* C10: when the on_frame pass of a decoded frame is over, the loop goes on
\* to call the on_change callbacks if and only if the frame is the first or
\* differs from the previous one by more than the threshold.
C10_ChangeDispatched ==
  [][\A c \in Threads :
       (pc[c] = "lp_disp" /\ loc[c].idx > Len(listeners.frame)
          /\ pc'[c] # "lp_disp" /\ Len(listeners.change) > 0)
         => (loc[c].changed <=> pc'[c] = "lp_change")]_vars

\* C11: with block_frame set no on_frame callback is called with the empty
\* frame; without it, a read that would block is followed by the sleep and
\* then by one call of every on_frame callback with the empty frame, in the
\* order of the list, before the loop goes on.
C11_FrameGating ==
  /\ [](\A c \in Threads : pc[c] \in {"lp_tick", "lp_tcb"} => ~block_frame)
  /\ [][\A c \in Threads :
          /\ (pc[c] = "lp_exc" /\ pc'[c] # "lp_exc"
                /\ loc[c].exc = [kind |-> "BlockingIOError",
                                 origin |-> "recv"])
               => pc'[c] = "lp_sleep"
          /\ (pc[c] = "lp_sleep" /\ pc'[c] # "lp_sleep")
               => IF block_frame THEN pc'[c] = "lp_top"
                  ELSE pc'[c] = "lp_tick" /\ loc'[c].idx = 1
          /\ (pc[c] = "lp_tick" /\ pc'[c] # "lp_tick")
               => IF loc[c].idx <= Len(listeners.frame)
                  THEN pc'[c] = "lp_tcb" /\ loc'[c].idx = loc[c].idx
                  ELSE pc'[c] = "lp_top"
          /\ (pc[c] = "lp_tcb" /\ pc'[c] \in LoopPCs \ {"lp_tcb"})
               => pc'[c] = "lp_tick" /\ loc'[c].idx = loc[c].idx + 1]_vars

\* The last on_frame callback of the list is being called with the empty
\* frame.
C11_Witness ==
  \E c \in Threads :
    /\ pc[c] = "lp_tcb"
    /\ loc[c].idx = Len(listeners.frame)
    /\ Len(listeners.frame) > 1
    /\ ~block_frame

\* C12: an attempt to connect the video socket is made only after fewer than
\* ConnectAttempts failures; a successful attempt binds the socket and ends
\* the retries, a failed one is counted; after ConnectAttempts failures
\* start() raises ConnectionError, and it then ends with alive false, no
\* on_init pass and no loop.
C12_ConnectBudget ==
  [][\A t \in Callers :
       /\ (pc[t] = "st_connect" /\ pc'[t] = "st_dummy")
            => /\ loc[t].idx < ConnectAttempts
               /\ video_socket' = nHandles + 1
               /\ video_socket' \notin closed'
       /\ (pc[t] = "st_connect" /\ pc'[t] = "st_connect" /\ loc'[t] # loc[t])
            => /\ loc[t].idx < ConnectAttempts
               /\ loc'[t].idx = loc[t].idx + 1
               /\ video_socket' = video_socket
       /\ (pc[t] = "st_connect" /\ pc'[t] \notin {"st_connect", "st_dummy"})
            => /\ loc[t].idx = ConnectAttempts
               /\ pc'[t] = "st_raise"
               /\ loc'[t].exc.kind = "ConnectionError"
       /\ (pc[t] = "st_connect" /\ loc[t].idx = ConnectAttempts
             /\ pc'[t] # "st_connect")
            => pc'[t] = "st_raise"
       /\ (pc[t] = "st_raise" /\ loc[t].exc.kind = "ConnectionError"
             /\ pc'[t] # "st_raise")
            => /\ pc'[t] = "idle"
               /\ ~alive'
               /\ ~hist'.initDone[loc[t].start]
               /\ pc'[Worker(loc[t].start)] = "unborn"]_vars

\* start() has raised ConnectionError out of the connect loop.
C12_Witness ==
  \E t \in Callers :
    /\ pc[t] = "st_raise"
    /\ loc[t].exc.kind = "ConnectionError"
    /\ loc[t].wire = << >>

\* C13: a start() that waits for the dummy byte on the open video socket
\* does not wait for ever: the byte comes or start() raises; and when the
\* peer has closed the socket without sending it, what start() raises is
\* ConnectionError.
C13_DummyByteBounded ==
  /\ \A t \in Callers :
       (pc[t] = "st_dummy")
         ~> (pc[t] \notin {"st_dummy", "st_blocked"} \/ video_socket \in closed)
  /\ [][\A t \in Callers :
          (pc[t] = "st_dummy" /\ pc'[t] = "st_raise"
             /\ video_socket \notin closed)
            => /\ loc'[t].exc.kind = "ConnectionError"
               /\ loc'[t].wire = << << >> >>]_vars

\* C14: a read of the handshake that returns fewer bytes than it asked for
\* (the dummy byte, the device name, the resolution) makes start() raise
\* ConnectionError, and start() then ends with alive false and no on_init
\* pass.
C14_ShortReadFatal ==
  [][\A t \in Callers :
       LET short(p, n) ==
             /\ pc[t] = p
             /\ Len(loc'[t].wire) = Len(loc[t].wire) + 1
             /\ Len(loc'[t].wire[Len(loc'[t].wire)]) < n
       IN  /\ (short("st_dummy", DummyBytes) \/ short("st_name", NameBytes)
                 \/ short("st_res", ResBytes))
                => /\ pc'[t] = "st_raise"
                   /\ loc'[t].exc.kind = "ConnectionError"
                   /\ ~alive'
           /\ (pc[t] = "st_raise" /\ loc[t].exc.kind = "ConnectionError"
                 /\ pc'[t] # "st_raise")
                => /\ pc'[t] = "idle"
                   /\ ~alive'
                   /\ ~hist'.initDone[loc[t].start]]_vars

\* C15: the handshake round-trips: a name field that holds the name n, NUL
\* padded to NameBytes bytes, sets device_name to n, and a resolution field
\* that holds w and h big-endian sets resolution to (w, h); the bytes
\* 4, 56, 2, 208 give (1080, 720).
C15_HandshakeRoundTrip ==
  /\ [](\A t \in Callers :
          (pc[t] = "st_alive") =>
            /\ \A n \in Names :
                 loc[t].wire[2] = NameField(n) => device_name = Some(n)
            /\ \A w, h \in Sizes :
                 loc[t].wire[3] = Pack(<< w, h >>)
                   => resolution = Some(<< w, h >>)
            /\ loc[t].wire[3] = << 4, 56, 2, 208 >>
                 => resolution = Some(<< 1080, 720 >>))
  /\ [][\A t \in Callers :
          /\ \A n \in Names :
               (pc[t] = "st_name"
                  /\ loc'[t].wire = Append(loc[t].wire, NameField(n)))
                 => pc'[t] = "st_res" /\ device_name' = Some(n)
          /\ \A w, h \in Sizes :
               (pc[t] = "st_res"
                  /\ loc'[t].wire = Append(loc[t].wire, Pack(<< w, h >>)))
                 => pc'[t] = "st_alive" /\ resolution' = Some(<< w, h >>)]_vars

\* A handshake with a two-byte character in the name and 1080 x 720 is over.
C15_Witness ==
  \E t \in Callers :
    /\ pc[t] = "st_alive"
    /\ loc[t].wire[2] = NameField(<< 233, 97 >>)
    /\ device_name = Some(<< 233, 97 >>)
    /\ loc[t].wire[3] = << 4, 56, 2, 208 >>
    /\ resolution = Some(<< 1080, 720 >>)

\* C16: each list holds the callbacks of its kind in the order of their
\* registration, a callback registered twice being there twice, and a
\* registration returns that list; every pass over a list (on_init in
\* start(), on_frame with a frame, on_frame with the empty frame) calls the
\* entries from the first on, one after the other, and ends after the last.
C16_DispatchOrder ==
  /\ [](listeners = hist.reg)
  /\ [][/\ \A kind \in Kinds :
             listeners'[kind] # listeners[kind]
               => /\ \E func \in Funcs :
                       listeners'[kind] = listeners[kind] \o << func >>
                  /\ hist'.ret = kind
        /\ \A c \in Threads :
             LET pass(top, call, back, list) ==
                   /\ (pc[c] \notin {top, call} \cup back /\ pc'[c] = top)
                        => loc'[c].idx = 1
                   /\ (pc[c] = top /\ pc'[c] = call)
                        => /\ loc[c].idx <= Len(list)
                           /\ loc'[c].idx = loc[c].idx
                   /\ (pc[c] \in {call} \cup back /\ pc'[c] = top)
                        => loc'[c].idx = loc[c].idx + 1
                   /\ (pc[c] = top /\ pc'[c] \notin {top, call})
                        => loc[c].idx = Len(list) + 1
             IN  /\ pass("st_init", "st_icb", {}, listeners.init)
                 /\ pass("lp_disp", "lp_cb", {"lp_cb2"}, listeners.frame)
                 /\ pass("lp_tick", "lp_tcb", {}, listeners.frame)]_vars

\* A callback has been registered twice with on_frame and a pass is calling
\* its second entry.
C16_Witness ==
  \E c \in Threads, func \in Funcs :
    /\ listeners.frame = << func, func >>
    /\ pc[c] = "lp_cb"
    /\ loc[c].idx = 2

\* C17: a start() that finds alive true raises AssertionError at once: it
\* binds no handle, opens none, closes none, and ends without an on_init
\* pass and without a loop of its own.
C17_StartNeedsNotAlive ==
  [][\A t \in Callers :
       /\ (pc[t] = "st_assert" /\ alive /\ pc'[t] # "st_assert")
            => /\ pc'[t] = "st_raise"
               /\ loc'[t].exc.kind = "AssertionError"
               /\ UNCHANGED << server_stream, video_socket, control_socket,
                               nHandles, closed, alive, device_name,
                               resolution >>
       /\ (pc[t] = "st_raise" /\ loc[t].exc.kind = "AssertionError"
             /\ pc'[t] # "st_raise")
            => /\ pc'[t] = "idle"
               /\ UNCHANGED << server_stream, video_socket, control_socket,
                               nHandles, closed, alive, device_name,
                               resolution >>
               /\ ~hist'.initDone[loc[t].start]
               /\ pc'[Worker(loc[t].start)] = "unborn"]_vars

\* start() has been called on a live session and has raised AssertionError.
C17_Witness ==
  \E t \in Callers :
    /\ pc[t] = "st_raise"
    /\ loc[t].exc.kind = "AssertionError"
    /\ alive

\* C18: an OSError of the socket read, other than BlockingIOError, that the
\* loop handles while alive is true leaves the loop, and alive is false once
\* the loop has ended that way; handled while alive is false, it is dropped
\* and the loop goes back to its test of alive.
C18_FatalReadError ==
  [][\A c \in Threads :
       (pc[c] = "lp_exc" /\ pc'[c] # "lp_exc"
          /\ loc[c].exc.kind = "OSError"
          /\ loc[c].exc.origin \in {"recv", "closed"})
         => IF alive
            THEN pc'[c] \notin LoopPCs /\ ~alive'
            ELSE pc'[c] = "lp_top"]_vars

\* C19: when a stop() returns and no start() is in progress, every handle
\* that a start() has opened (server stream, video socket, control socket)
\* is closed.
C19_NoLeak ==
  [][\A c \in Threads :
       (pc[c] = "sp_close" /\ pc'[c] # "sp_close"
          /\ \A t \in Callers : pc'[t] \notin StartPCs)
         => (1 .. nHandles) \subseteq closed']_vars

\* C20: while an on_init callback runs, device_name is a non-empty string,
\* resolution is the resolution of the handshake, and the video and the
\* control socket are bound; the on_init pass begins with the statement
\* that sets alive; and a start() that has raised calls no callback any more.
C20_InitAfterBootstrap ==
  /\ [](\A t \in Callers :
          (pc[t] = "st_icb") =>
            /\ device_name.set /\ Len(device_name.val) > 0
            /\ hist.handshake.set /\ resolution = hist.handshake
            /\ video_socket # None /\ control_socket # None)
  /\ [][\A t \in Callers :
          /\ (pc[t] \notin {"st_init", "st_icb"} /\ pc'[t] = "st_init")
               => pc[t] = "st_alive" /\ alive'
          /\ (pc[t] = "st_raise" /\ pc'[t] # "st_raise") => pc'[t] = "idle"]_vars

====
